---- MODULE Spec2Model ----
(***************************************************************************)
(* servicedesk-proxy: the retry client (fetchWithRetry), the two paginated  *)
(* fetchers (fetchAllAccounts, fetchAllRequests), the router mounted at     *)
(* /api/integrations/servicedesk, the 404 handler and the global error      *)
(* handler.  Every inbound request (or direct call of an exported function) *)
(* occupies one slot; a slot's steps are the stretches of code between two  *)
(* awaits.  The requests modelled are those the middleware ahead of the     *)
(* mount point (helmet, cors, rate limiter, body parser) has passed on.     *)
(***************************************************************************)
EXTENDS Integers, Sequences, FiniteSets, TLC

(***************************************************************************)
(* Program constants                                                       *)
(***************************************************************************)
\* fetchWithRetry(url, options, retries = 2, timeoutMs = 15000)
DefaultRetries == 2
DefaultTimeoutMs == 15000
\* fetchAllAccounts(maxPages = 10)
DefaultMaxPages == 10
\* const rowCount = 100
rowCount == 100

(***************************************************************************)
(* Bounds of the model                                                     *)
(***************************************************************************)
\* largest `retries` argument of a direct call of fetchWithRetry
MaxRetriesArg == 3
\* largest `maxPages` argument of a direct call of fetchAllAccounts
MaxPagesArg == 3
\* fetchAllRequests has no cap of its own: the model follows it this many pages
MaxRequestPages == 4
\* Pages per request when two requests are handled concurrently
MaxConcPages == 2

Slots == {1, 2}

(***************************************************************************)
(* JavaScript values: a tag t and, where there is one, a payload v.        *)
(* Strings the code transforms are sequences of characters.                *)
(***************************************************************************)
Undefined == [t |-> "undefined"]
Null == [t |-> "null"]
Str(s) == [t |-> "string", v |-> s]
Num(n) == [t |-> "number", v |-> n]
Arr(a) == [t |-> "array", v |-> a]
Obj(o) == [t |-> "object", v |-> o]

\* x ?? d
Nullish(x) == x.t \in {"undefined", "null"}
Coalesce(x, d) == IF Nullish(x) THEN d ELSE x
Bool(b) == [t |-> "boolean", v |-> b]
NaN == [t |-> "nan"]
\* !x
Falsy(x) ==
  \/ Nullish(x)
  \/ (x.t = "string" /\ x.v = <<>>)
  \/ (x.t = "number" /\ x.v = 0)
  \/ x.t = "nan"
  \/ (x.t = "boolean" /\ ~x.v)
\* o?.name
OptName(o) == IF Nullish(o) THEN Undefined ELSE o.v.name
\* x?.f, for the properties the code reads (name, value, created_time, ...):
\* an object has the property or not; a string, number, boolean or array has none
OptProp(x, f) ==
  IF x.t = "object" /\ f \in DOMAIN x.v THEN x.v[f] ELSE Undefined

UpperCase == <<"A", "B", "C", "D", "E", "F", "G", "H", "I", "J", "K", "L", "M", "N", "O", "P", "Q", "R", "S", "T", "U", "V", "W", "X", "Y", "Z">>
LowerCase == <<"a", "b", "c", "d", "e", "f", "g", "h", "i", "j", "k", "l", "m", "n", "o", "p", "q", "r", "s", "t", "u", "v", "w", "x", "y", "z">>

toLowerCaseChar(c) ==
  IF \E i \in 1..26 : UpperCase[i] = c
  THEN LowerCase[CHOOSE i \in 1..26 : UpperCase[i] = c]
  ELSE c

toLowerCase(s) == [i \in 1..Len(s) |-> toLowerCaseChar(s[i])]

Digit(d) == CASE d = 0 -> "0" [] d = 1 -> "1" [] d = 2 -> "2" [] d = 3 -> "3"
              [] d = 4 -> "4" [] d = 5 -> "5" [] d = 6 -> "6" [] d = 7 -> "7"
              [] d = 8 -> "8" [] d = 9 -> "9"

RECURSIVE NumberToString(_)
NumberToString(n) ==
  IF n < 10 THEN <<Digit(n)>> ELSE NumberToString(n \div 10) \o <<Digit(n % 10)>>

\* x.toString() of a number or a string
toString(x) == IF x.t = "number" THEN NumberToString(x.v) ELSE x.v

\* String.prototype.trim: white space is taken off both ends
WhiteSpace == {" ", "\t", "\n"}

RECURSIVE trimStart(_)
trimStart(s) ==
  IF s # <<>> /\ Head(s) \in WhiteSpace THEN trimStart(Tail(s)) ELSE s

RECURSIVE trimEnd(_)
trimEnd(s) ==
  IF s # <<>> /\ s[Len(s)] \in WhiteSpace THEN trimEnd(SubSeq(s, 1, Len(s) - 1)) ELSE s

trim(s) == trimEnd(trimStart(s))

IsDigit(c) == c \in {"0", "1", "2", "3", "4", "5", "6", "7", "8", "9"}
DigitValue(c) == CHOOSE d \in 0..9 : Digit(d) = c

RECURSIVE DigitsValue(_)
DigitsValue(s) ==
  IF s = <<>> THEN 0 ELSE 10 * DigitsValue(SubSeq(s, 1, Len(s) - 1)) + DigitValue(s[Len(s)])

AllDigits(s) == \A i \in 1..Len(s) : IsDigit(s[i])

\* Number(x) of a string: white space is trimmed; the empty string is 0; a
\* decimal integer is its value; other text is NaN.  (Fractions, exponents
\* and hexadecimal are not among the values the model uses.)
StringToNumber(s) ==
  LET u == trim(s)
  IN  IF u = <<>> THEN Num(0)
      ELSE IF AllDigits(u) THEN Num(DigitsValue(u))
      ELSE IF Head(u) = "-" /\ Len(u) > 1 /\ AllDigits(Tail(u)) THEN Num(0 - DigitsValue(Tail(u)))
      ELSE NaN

\* Number(x)
Number(x) ==
  CASE x.t = "number" -> x
    [] x.t = "nan" -> NaN
    [] x.t = "undefined" -> NaN
    [] x.t = "null" -> Num(0)
    [] x.t = "boolean" -> IF x.v THEN Num(1) ELSE Num(0)
    [] x.t = "string" -> StringToNumber(x.v)
    [] x.t = "array" -> IF x.v = <<>> THEN Num(0) ELSE NaN
    [] OTHER -> NaN

\* a >= b and a <= b of numbers: false when either is NaN
Ge(a, b) == a.t = "number" /\ b.t = "number" /\ a.v >= b.v
Le(a, b) == a.t = "number" /\ b.t = "number" /\ a.v <= b.v

(***************************************************************************)
(* new Date(`${day}T00:00:00Z`).getTime(): the day is YYYY-MM-DD           *)
(***************************************************************************)
IsLeapYear(y) == (y % 4 = 0 /\ y % 100 # 0) \/ y % 400 = 0
DaysInMonth(y, m) ==
  IF m = 2 THEN (IF IsLeapYear(y) THEN 29 ELSE 28)
  ELSE IF m \in {4, 6, 9, 11} THEN 30 ELSE 31

\* days from 1970-01-01 to y-m-d in the proleptic Gregorian calendar
DaysFromCivil(y, m, d) ==
  LET yy == IF m <= 2 THEN y - 1 ELSE y
      era == yy \div 400
      yoe == yy - era * 400
      mp == IF m > 2 THEN m - 3 ELSE m + 9
      doy == (153 * mp + 2) \div 5 + d - 1
      doe == yoe * 365 + yoe \div 4 - yoe \div 100 + doy
  IN  era * 146097 + doe - 719468

MsPerDay == 86400000

\* Date.parse of day followed by a fixed time of day, secs seconds after
\* midnight UTC; NaN when day is no date.  (A day past the end of its month is
\* not among the values the model uses.)
DateTimeMs(day, secs) ==
  IF /\ Len(day) = 10
     /\ day[5] = "-" /\ day[8] = "-"
     /\ AllDigits(SubSeq(day, 1, 4)) /\ AllDigits(SubSeq(day, 6, 7))
     /\ AllDigits(SubSeq(day, 9, 10))
  THEN LET y == DigitsValue(SubSeq(day, 1, 4))
           m == DigitsValue(SubSeq(day, 6, 7))
           d == DigitsValue(SubSeq(day, 9, 10))
       IN  IF m >= 1 /\ m <= 12 /\ d >= 1 /\ d <= DaysInMonth(y, m)
           THEN Num(DaysFromCivil(y, m, d) * MsPerDay + secs * 1000)
           ELSE NaN
  ELSE NaN

\* typeof from === 'string' ? new Date(`${from}T00:00:00Z`).getTime() : undefined
fromEpochOf(from) == IF from.t = "string" THEN DateTimeMs(from.v, 0) ELSE Undefined
\* typeof to === 'string' ? new Date(`${to}T23:59:59Z`).getTime() : undefined
toEpochOf(to) == IF to.t = "string" THEN DateTimeMs(to.v, 86399) ELSE Undefined

RECURSIVE Pow2(_)
Pow2(n) == IF n <= 0 THEN 1 ELSE 2 * Pow2(n - 1)

(***************************************************************************)
(* The upstream's data.                                                    *)
(***************************************************************************)
sExcluded == <<"k", "r", "i", "s", "t", "i", "a", "n", " ", "m", " ", "m", "a", "t", "i", "a", "s">>
sActive == <<"a", "c", "t", "i", "v", "e">>
sACTIVE == <<"A", "C", "T", "I", "V", "E">>
sOnHold == <<"O", "n", "H", "o", "l", "d">>
sCADC == <<"C", "A", "D", "C">>
sZed == <<"Z", "e", "d">>
sAcme == <<"a", "c", "m", "e">>

acct1 == [id |-> Num(1526), name |-> Str(sCADC),
          site |-> Obj([name |-> Str(sZed)]), status |-> Obj([name |-> Str(sACTIVE)])]
acct2 == [id |-> Str(<<"7">>), name |-> Undefined,
          site |-> Undefined, status |-> Obj([name |-> Str(sOnHold)])]
acct3 == [id |-> Undefined, name |-> Str(sZed), site |-> Obj([name |-> Undefined]),
          status |-> Undefined]

sAnn == <<"A", "n", "n">>
sPadded == <<" ", "x", " ">>
sMixedCase == <<"K", "r", "i", "s", "t", "i", "a", "n", " ", "M", " ", "M", "a", "t", "i", "a", "s">>
sSpaced == <<" ", "K", "r", "i", "s", "t", "i", "a", "n", " ", "M", " ", "M", "A", "T", "I", "A", "S", " ">>
sTabbed == <<"\t">> \o sExcluded \o <<"\n">>
sAbc == <<"a", "b", "c">>
sJan2 == <<"8", "6", "4", "0", "0", "0", "0", "0">>

\* Raw tickets as the upstream sends them: an object with the fields it has
ticket1 == Obj([id |-> Num(1), technician |-> Obj([name |-> Str(sSpaced)]),
                created_time |-> Obj([value |-> Str(sJan2)]),
                status |-> Obj([name |-> Str(sOnHold)]), subject |-> Str(sAcme),
                udf_fields |-> Obj([room |-> Num(12)])])
ticket2 == Obj([id |-> Num(2), status |-> Str(sCADC), subject |-> Num(7),
                requester |-> Null, is_overdue |-> Bool(FALSE)])
ticket3 == Obj([id |-> Num(3), technician |-> Str(sMixedCase),
                created_time |-> Obj([value |-> Null]),
                priority |-> Obj([name |-> Num(5)]), group |-> Str(sZed)])
ticket4 == Obj([id |-> Num(4), technician |-> Obj([name |-> Str(sAnn)]),
                created_time |-> Obj([value |-> Num(172800000)]),
                group |-> Obj([name |-> Str(sZed)]), short_description |-> Str(sPadded),
                created_by |-> Obj([name |-> Str(sAnn)])])
ticket5 == Obj([id |-> Num(5), technician |-> Obj([name |-> Str(sExcluded)]),
                created_time |-> Obj([value |-> Str(sAbc)]),
                requester |-> Obj([name |-> Str(sAnn)]), description |-> Str(sAbc)])
ticket6 == Obj([id |-> Num(6), technician |-> Obj([name |-> Str(sAnn)]),
                created_time |-> Obj([value |-> Str(<<>>)])])

\* Four upstream databases: what the page starting at row s holds.
UpstreamDbs == {"A", "B", "C", "D"}

PageNo(s) == (s - 1) \div rowCount + 1

AccountsAt(d, s) ==
  CASE d = "A" -> IF PageNo(s) % 2 = 1 THEN Arr(<<acct1, acct2>>) ELSE Arr(<<acct3>>)
    [] d = "B" -> IF PageNo(s) = 2 THEN Undefined ELSE Arr(<<acct2>>)
    [] OTHER   -> IF PageNo(s) = 1 THEN Arr(<<acct3, acct1>>) ELSE Arr(<<>>)

RequestsAt(d, s) ==
  CASE d = "A" -> IF PageNo(s) % 2 = 1 THEN Arr(<<ticket1, ticket2, ticket4>>)
                  ELSE Arr(<<ticket3, ticket5>>)
    [] d = "B" -> IF PageNo(s) = 2 THEN Undefined ELSE Arr(<<ticket4, ticket2>>)
    [] d = "C" -> IF PageNo(s) = 1 THEN Arr(<<ticket6, ticket3, ticket1>>) ELSE Arr(<<>>)
    [] OTHER   -> IF PageNo(s) = 1 THEN Arr(<<ticket2, Null>>) ELSE Arr(<<ticket4>>)

\* What the upstream can answer an attempt with.
UpstreamStatuses == {200, 404, 503}
HasMoreRows == {"true", "false", "absent"}

statusText(st) == CASE st = 200 -> "OK" [] st = 404 -> "Not Found" [] OTHER -> "Service Unavailable"

\* Response.ok: the status is in 200..299
ResponseOk(st) == st >= 200 /\ st <= 299

(***************************************************************************)
(* Errors: name and message, the message as a tag with its number and text *)
(***************************************************************************)
Err(n, m, k, x) == [name |-> n, msg |-> m, num |-> k, text |-> x]
NoError == Err("none", "", 0, "")
AbortError == Err("AbortError", "This operation was aborted", 0, "")
\* what fetch rejects with when the request fails for another reason
NetworkErrors == {Err("TypeError", "fetch failed", 0, "ECONNRESET"),
                  Err("TypeError", "fetch failed", 0, "ENOTFOUND")}
TimeoutError(ms) == Err("Error", "Request timeout after ms", ms, "")
RequestFailedError == Err("Error", "Request failed after retries", 0, "")
SyntaxError == Err("SyntaxError", "Unexpected token in JSON", 0, "")
\* fetchAllAccounts stands twice in the file (lines 96-162 and 252-297); the
\* copies differ in their logging and in this message only (the second throws
\* `Accounts fetch failed: ${statusText}`).  The first is modelled.
AccountsApiError(st) == Err("Error", "ServiceDesk API returned", st, statusText(st))
RequestsApiError(st) == Err("Error", "Requests fetch failed", 0, statusText(st))

(***************************************************************************)
(* normalizeAccount                                                        *)
(***************************************************************************)
\* Variant: the status name is compared as it is.
normalizeAccountCaseSensitive(account) ==
  [externalId |-> IF Nullish(account.id) THEN <<>> ELSE toString(account.id),
   name       |-> Coalesce(account.name, Null),
   site       |-> Coalesce(OptName(account.site), Null),
   isActive   |-> LET n == OptName(account.status)
                  IN  ~Nullish(n) /\ n.v = sActive]

\* function normalizeAccount(account)
normalizeAccount(account) ==
  [externalId |-> IF Nullish(account.id) THEN <<>> ELSE toString(account.id),
   name       |-> Coalesce(account.name, Null),
   site       |-> Coalesce(OptName(account.site), Null),
   isActive   |-> LET n == OptName(account.status)
                  IN  ~Nullish(n) /\ toLowerCase(n.v) = sActive]

Map(f(_), s) == [i \in 1..Len(s) |-> f(s[i])]

(***************************************************************************)
(* The request filter: normalize, isInDateRange, isNotExcluded             *)
(***************************************************************************)
\* const EXCLUDED_TECHNICIANS = new Set(['kristian m matias'])
EXCLUDED_TECHNICIANS == {sExcluded}

TypeErrorNotAFunction == Err("TypeError", "toLowerCase is not a function", 0, "")
TypeErrorNullTicket == Err("TypeError", "Cannot read properties of null", 0, "")

\* (text || '').toLowerCase() is no function call when text is truthy and no string
normalizeThrows(text) == ~Falsy(text) /\ text.t # "string"
\* Variant: the name is not trimmed.
normalizeUntrimmed(text) == IF Falsy(text) THEN <<>> ELSE toLowerCase(text.v)
\* function normalize(text): (text || '').toLowerCase().trim()
normalize(text) == IF Falsy(text) THEN <<>> ELSE trim(toLowerCase(text.v))

\* ticket?.created_time?.value
createdValueOf(ticket) == OptProp(OptProp(ticket, "created_time"), "value")
\* ticket?.technician?.name
techNameOf(ticket) == OptProp(OptProp(ticket, "technician"), "name")

\* function isInDateRange(ticket, from, to)
isInDateRange(ticket, from, to) ==
  IF Falsy(from) \/ Falsy(to) THEN TRUE
  ELSE LET created == Number(createdValueOf(ticket))
       IN  Ge(created, from) /\ Le(created, to)

isNotExcludedThrows(ticket) == normalizeThrows(techNameOf(ticket))
\* function isNotExcluded(ticket)
isNotExcluded(ticket) ==
  LET techName == normalize(techNameOf(ticket))
  IN  techName = <<>> \/ techName \notin EXCLUDED_TECHNICIANS

(***************************************************************************)
(* normalizeTicket                                                         *)
(***************************************************************************)
\* const safeString = (value, fallback = '') => typeof value === 'string' ? value : fallback
safeString(value, fallback) == IF value.t = "string" THEN value ELSE Str(fallback)

\* ticket.f?.name ?? ticket.f
nameOrSelf(x) == Coalesce(OptProp(x, "name"), x)

sUnknown == <<"U", "n", "k", "n", "o", "w", "n">>
sUnspecified == <<"U", "n", "s", "p", "e", "c", "i", "f", "i", "e", "d">>
sUnassigned == <<"U", "n", "a", "s", "s", "i", "g", "n", "e", "d">>
sSystem == <<"S", "y", "s", "t", "e", "m">>

NormalizedFields == {"status", "priority", "requester", "technician", "created_by",
                     "subject", "short_description", "group", "description", "text",
                     "summary"}

\* The raw ticket after normalizeTicket(ticket): the result is a new object
\* ({...ticket, ...}) and nothing is assigned to ticket.
ticketAfterNormalize(ticket) == ticket

\* ticket.subject of a null ticket is a TypeError
normalizeTicketThrows(ticket) == Nullish(ticket)

\* Variant: the three parts are joined without the final trim.
descriptionUntrimmed(subject, shortDescription, group) ==
  Str(subject.v \o <<" ">> \o shortDescription.v \o <<" ">> \o group.v)
\* `${subject} ${shortDescription} ${group}`.trim()
descriptionOf(subject, shortDescription, group) ==
  Str(trim(subject.v \o <<" ">> \o shortDescription.v \o <<" ">> \o group.v))

\* Variant: only the normalized fields are kept.
normalizeTicketNoSpread(ticket) ==
  LET subject == safeString(OptProp(ticket, "subject"), <<>>)
      shortDescription == safeString(OptProp(ticket, "short_description"), <<>>)
      group == safeString(nameOrSelf(OptProp(ticket, "group")), <<>>)
      description == descriptionOf(subject, shortDescription, group)
  IN  Obj([f \in NormalizedFields |->
        CASE f = "status" -> safeString(nameOrSelf(OptProp(ticket, "status")), sUnknown)
          [] f = "priority" -> safeString(nameOrSelf(OptProp(ticket, "priority")), sUnspecified)
          [] f = "requester" -> safeString(nameOrSelf(OptProp(ticket, "requester")), sUnknown)
          [] f = "technician" -> safeString(nameOrSelf(OptProp(ticket, "technician")), sUnassigned)
          [] f = "created_by" -> safeString(nameOrSelf(OptProp(ticket, "created_by")), sSystem)
          [] f = "subject" -> subject
          [] f = "short_description" -> shortDescription
          [] f = "group" -> group
          [] OTHER -> description])

\* function normalizeTicket(ticket), for a ticket that is an object
normalizeTicket(ticket) ==
  LET subject == safeString(OptProp(ticket, "subject"), <<>>)
      shortDescription == safeString(OptProp(ticket, "short_description"), <<>>)
      group == safeString(nameOrSelf(OptProp(ticket, "group")), <<>>)
      description == descriptionOf(subject, shortDescription, group)
  IN  Obj([f \in DOMAIN ticket.v \cup NormalizedFields |->
        CASE f = "status" -> safeString(nameOrSelf(OptProp(ticket, "status")), sUnknown)
          [] f = "priority" -> safeString(nameOrSelf(OptProp(ticket, "priority")), sUnspecified)
          [] f = "requester" -> safeString(nameOrSelf(OptProp(ticket, "requester")), sUnknown)
          [] f = "technician" -> safeString(nameOrSelf(OptProp(ticket, "technician")), sUnassigned)
          [] f = "created_by" -> safeString(nameOrSelf(OptProp(ticket, "created_by")), sSystem)
          [] f = "subject" -> subject
          [] f = "short_description" -> shortDescription
          [] f = "group" -> group
          [] f \in {"description", "text", "summary"} -> description
          [] OTHER -> ticket.v[f]])

(***************************************************************************)
(* router.get('/requests'): allTickets.filter(...).map(normalizeTicket)    *)
(***************************************************************************)
Passes(t, from, to) == isInDateRange(t, from, to) /\ isNotExcluded(t)

\* Variant: the tickets are normalized first and filtered afterwards.
RequestsPipelineMapFirst(tickets, from, to) ==
  IF \E i \in 1..Len(tickets) : normalizeTicketThrows(tickets[i])
  THEN [threw |-> TRUE, err |-> TypeErrorNullTicket, calls |-> <<>>, data |-> <<>>]
  ELSE [threw |-> FALSE, err |-> NoError, calls |-> tickets,
        data |-> SelectSeq(Map(normalizeTicket, tickets), LAMBDA t : Passes(t, from, to))]

\* The filter runs over all tickets, then normalizeTicket over those it kept, in
\* order; calls are the tickets normalizeTicket was called with, as it left them.
RequestsPipeline(tickets, from, to) ==
  IF \E i \in 1..Len(tickets) :
       isInDateRange(tickets[i], from, to) /\ isNotExcludedThrows(tickets[i])
  THEN [threw |-> TRUE, err |-> TypeErrorNotAFunction, calls |-> <<>>, data |-> <<>>]
  ELSE LET filtered == SelectSeq(tickets, LAMBDA t : Passes(t, from, to))
           bad == {i \in 1..Len(filtered) : normalizeTicketThrows(filtered[i])}
       IN  IF bad # {}
           THEN [threw |-> TRUE, err |-> TypeErrorNullTicket,
                 calls |-> SubSeq(filtered, 1, CHOOSE i \in bad : \A j \in bad : i <= j),
                 data |-> <<>>]
           ELSE [threw |-> FALSE, err |-> NoError,
                 calls |-> Map(ticketAfterNormalize, filtered),
                 data |-> Map(normalizeTicket, filtered)]

(***************************************************************************)
(* State.  Every variable but nodeEnv, adminSyncKey and db is a function    *)
(* of the slot: the locals of one inbound request or direct call.          *)
(***************************************************************************)
VARIABLES
  nodeEnv,     \* env.NODE_ENV
  db,          \* which upstream database answers
  pc,          \* where the slot's code stands
  inbound,     \* the inbound HTTP request, or the direct call, being served
  via,         \* "route": called by a route handler; "direct": called directly
  job,         \* "accounts" | "requests" | "fetch": what calls fetchWithRetry
  maxPages,    \* fetchAllAccounts: maxPages
  page,        \* fetchAllAccounts: page
  startIndex,  \* fetchAllRequests: startIndex
  hasMore,     \* both fetchers: hasMore
  all,         \* allAccounts / allRequests
  url,         \* fetchWithRetry: url
  retries,     \* fetchWithRetry: retries
  attempt,     \* fetchWithRetry: attempt
  lastError,   \* fetchWithRetry: lastError
  pageReqs,    \* history: the page requests the fetcher has made (their urls)
  pageDone,    \* history: has_more_rows of every page received and parsed
  tries,       \* history: the outcome of every attempt of the current call
  warnLog,     \* history: the log('warn') entries of the current call
  waits,       \* history: the backoff timers the current call has awaited
  result,      \* what the fetcher (or a direct call) returned or threw
  httpResp,    \* the response sent to the inbound request
  normalized   \* history: the tickets normalizeTicket was called with

vars == <<nodeEnv, db, pc, inbound, via, job, maxPages, page, startIndex, hasMore,
          all, url, retries, attempt, lastError, pageReqs, pageDone, tries,
          warnLog, waits, result, httpResp, normalized>>

fetcherVars == <<maxPages, page, startIndex, hasMore, all, pageReqs, pageDone>>
retryVars == <<url, retries, attempt, lastError, tries, warnLog, waits>>
envVars == <<nodeEnv, db>>
outVars == <<result, httpResp, normalized>>

NodeEnvs == {"development", "production", "test"}

NoUrl == [path |-> "", start_index |-> 0, row_count |-> 0, account |-> <<>>]
NoRequest == [kind |-> "none", method |-> "", path |-> "", account |-> Undefined,
              adminKey |-> Undefined, from |-> Undefined, to |-> Undefined, args |-> <<>>]
Pending == [t |-> "pending"]
NoResponse == [status |-> 0, body |-> [none |-> TRUE]]

InitSlots(active) ==
  /\ nodeEnv \in NodeEnvs
  /\ db \in UpstreamDbs
  /\ pc = [r \in Slots |-> IF r \in active THEN "idle" ELSE "off"]
  /\ inbound = [r \in Slots |-> NoRequest]
  /\ via = [r \in Slots |-> "none"]
  /\ job = [r \in Slots |-> "none"]
  /\ maxPages = [r \in Slots |-> 0]
  /\ page = [r \in Slots |-> 0]
  /\ startIndex = [r \in Slots |-> 0]
  /\ hasMore = [r \in Slots |-> FALSE]
  /\ all = [r \in Slots |-> <<>>]
  /\ url = [r \in Slots |-> NoUrl]
  /\ retries = [r \in Slots |-> 0]
  /\ attempt = [r \in Slots |-> 0]
  /\ lastError = [r \in Slots |-> NoError]
  /\ pageReqs = [r \in Slots |-> <<>>]
  /\ pageDone = [r \in Slots |-> <<>>]
  /\ tries = [r \in Slots |-> <<>>]
  /\ warnLog = [r \in Slots |-> <<>>]
  /\ waits = [r \in Slots |-> <<>>]
  /\ result = [r \in Slots |-> Pending]
  /\ httpResp = [r \in Slots |-> NoResponse]
  /\ normalized = [r \in Slots |-> <<>>]

Init == InitSlots({1})

(***************************************************************************)
(* The decisions the code takes                                            *)
(***************************************************************************)
\* for (let attempt = 0; attempt <= retries; attempt++)
AttemptAllowed(a, n) == a <= n
\* Variant: the abort of a timed-out attempt is handled like any other error.
IsAbortErrorNever(e) == FALSE
\* error instanceof Error && error.name === 'AbortError'
IsAbortError(e) == e.name = "AbortError"
\* if (attempt < retries)
RetriesRemain(a, n) == a < n
\* Variant: a linear backoff.
BackoffMsLinear(a) == (a + 1) * 1000
\* Math.pow(2, attempt) * 1000
BackoffMs(a) == Pow2(a) * 1000
\* Variant: the captured error is dropped.
ErrorAfterRetriesGeneric(e) == RequestFailedError
\* throw lastError || new Error('Request failed after retries')
ErrorAfterRetries(e) == IF e = NoError THEN RequestFailedError ELSE e
\* Variant: the fetcher does not look at response.ok.
FetcherRejectsNever(st) == FALSE
\* if (!response.ok) throw ...
FetcherRejects(st) == ~ResponseOk(st)
\* Variant: a zero-based cursor.
StartIndexOfPageZeroBased(pg) == (pg - 1) * rowCount
\* start_index: (page - 1) * rowCount + 1
StartIndexOfPage(pg) == (pg - 1) * rowCount + 1
\* startIndex += rowCount
NextStartIndex(s) == s + rowCount
\* hasMore = data.list_info?.has_more_rows === true
HasMoreOf(hm) == hm = "true"
\* Variant: only an absent parameter is refused.
AccountParamMissingNullish(account) == Nullish(account)
\* if (!account || typeof account !== 'string')
AccountParamMissing(account) == Falsy(account) \/ account.t # "string"

AccountsUrl(pg) == [path |-> "/api/v3/accounts", start_index |-> StartIndexOfPage(pg),
                    row_count |-> rowCount, account |-> <<>>]
RequestsUrl(s, accountName) == [path |-> "/api/v3/requests", start_index |-> s,
                                row_count |-> rowCount, account |-> accountName]

\* router.get('/accounts'), router.get('/requests'); anything else falls through
RouteOf(method, path) ==
  IF method = "GET" /\ path = "/accounts" THEN "accounts"
  ELSE IF method = "GET" /\ path = "/requests" THEN "requests"
  ELSE "none"

\* 404 handler
NotFoundResponse(path) ==
  [status |-> 404, body |-> [error |-> "Not found", path |-> path]]

\* env.SERVICEDESK_AUTHTOKEN, sent in the authtoken header of every page request
authToken == "SERVICEDESK_AUTHTOKEN"
\* await response.text() of a response that is not ok: the upstream's error body
ErrorBodyOf(st) == IF st = 404 THEN "body of the 404" ELSE "body of the 503"

\* Variant: the error's message is sent whatever NODE_ENV is.
ErrorResponseVerbose(err, env) ==
  [status |-> 500,
   body |-> [error |-> "Internal server error", message |-> [err EXCEPT !.name = ""]]]
\* Global error handler
ErrorResponse(err, env) ==
  [status |-> 500,
   body |-> [error |-> "Internal server error",
             message |-> IF env = "production"
                         THEN Err("", "An unexpected error occurred", 0, "")
                         ELSE [err EXCEPT !.name = ""]]]

\* res.status(400).json({ success: false, message: 'Missing account query param' })
MissingAccountResponse ==
  [status |-> 400, body |-> [success |-> FALSE, message |-> "Missing account query param"]]

\* res.json({ success: true, count: accounts.length, data: accounts })
AccountsResponse(accounts) ==
  [status |-> 200, body |-> [success |-> TRUE, count |-> Len(accounts), data |-> accounts]]

\* res.json({ success: true, meta: {...}, data: filtered })
RequestsResponse(req, allTickets, filtered) ==
  [status |-> 200,
   body |-> [success |-> TRUE,
             meta |-> [account |-> req.account, from |-> req.from, to |-> req.to,
                       total_raw |-> Len(allTickets),
                       total_filtered |-> Len(filtered),
                       excluded_technicians |-> EXCLUDED_TECHNICIANS],
             data |-> filtered]]

\* The rest of router.get('/requests') once fetchAllRequests has returned:
\* the response, or the error the filter or normalizeTicket threw.
RequestsOutcome(req, allTickets, env) ==
  LET p == RequestsPipeline(allTickets, fromEpochOf(req.from), toEpochOf(req.to))
  IN  [calls |-> p.calls,
       resp |-> IF p.threw THEN ErrorResponse(p.err, env)
                ELSE RequestsResponse(req, allTickets, p.data)]

(***************************************************************************)
(* How a fetcher (or a direct call) ends                                   *)
(***************************************************************************)
\* return allAccounts / return allRequests / return response
Return(r, value) ==
  /\ result' = [result EXCEPT ![r] = [t |-> "returned", v |-> value]]
  /\ httpResp' = [httpResp EXCEPT ![r] =
                    IF via[r] # "route" THEN @
                    ELSE IF job[r] = "accounts" THEN AccountsResponse(value)
                    ELSE RequestsOutcome(inbound[r], value, nodeEnv).resp]
  /\ normalized' = [normalized EXCEPT ![r] =
                      IF via[r] = "route" /\ job[r] = "requests"
                      THEN RequestsOutcome(inbound[r], value, nodeEnv).calls ELSE @]
  /\ pc' = [pc EXCEPT ![r] = "done"]

\* Variant: a failure is swallowed and what was accumulated is returned.
ThrowPartial(r, err) == Return(r, all[r])

\* An error leaves the function; asyncHandler's catch(next) hands a route's
\* error to the global error handler.
Throw(r, err) ==
  /\ result' = [result EXCEPT ![r] = [t |-> "threw", v |-> err]]
  /\ httpResp' = [httpResp EXCEPT ![r] =
                    IF via[r] = "route" THEN ErrorResponse(err, nodeEnv) ELSE @]
  /\ normalized' = normalized
  /\ pc' = [pc EXCEPT ![r] = "done"]

(***************************************************************************)
(* Inbound requests                                                        *)
(***************************************************************************)
adminSyncKey == <<"k", "e", "y">>
wrongKey == <<"b", "a", "d">>

ReqRange(m, p, a, k, f, t) ==
  [kind |-> "http", method |-> m, path |-> p, account |-> a, adminKey |-> k,
   from |-> f, to |-> t, args |-> <<>>]
Req(m, p, a, k) == ReqRange(m, p, a, k, Undefined, Undefined)

sDay0 == <<"1", "9", "7", "0", "-", "0", "1", "-", "0", "1">>
sDay1 == <<"1", "9", "7", "0", "-", "0", "1", "-", "0", "2">>
sDay2 == <<"1", "9", "7", "0", "-", "0", "1", "-", "0", "3">>
sDayBefore == <<"1", "9", "6", "9", "-", "1", "2", "-", "3", "1">>
\* ?from= and ?to= of GET /requests: absent, days around the epoch, no date, given twice
DateRanges == {<<Undefined, Undefined>>, <<Str(sDay0), Str(sDay2)>>,
               <<Str(sDay1), Str(sDay2)>>, <<Undefined, Str(sDay2)>>,
               <<Str(sAbc), Str(sDay2)>>, <<Str(sDayBefore), Str(sDay0)>>,
               <<Arr(<<Str(sDay1), Str(sDay1)>>), Str(sDay2)>>}


\* ?account= absent, empty, a name, given twice (an array), given as account[x]= (an object)
AccountParams == {Undefined, Str(<<>>), Str(sAcme), Arr(<<Str(sAcme), Str(sZed)>>),
                  Obj([x |-> Str(sAcme)])}
AdminKeyHeaders == {Undefined, Str(wrongKey), Str(adminSyncKey)}

\* The account parameter varies on /requests and the key header on /accounts/sync.
InboundRequests ==
  {Req(m, p, Undefined, Undefined) : m \in {"GET", "POST"}, p \in {"/accounts", "/tickets"}}
  \cup {Req(m, "/requests", a, Undefined) : m \in {"GET", "POST"}, a \in AccountParams}
  \cup {Req(m, "/accounts/sync", Undefined, k) : m \in {"GET", "POST"}, k \in AdminKeyHeaders}
  \cup {ReqRange("GET", "/requests", Str(sAcme), Undefined, d[1], d[2]) : d \in DateRanges}

CallWith(f, args) == [NoRequest EXCEPT !.kind = f, !.args = args]
Call(f) == CallWith(f, <<>>)

\* const allAccounts = []; let page = 1; let hasMore = true
EnterFetchAllAccounts(r, mp) ==
  /\ job' = [job EXCEPT ![r] = "accounts"]
  /\ maxPages' = [maxPages EXCEPT ![r] = mp]
  /\ page' = [page EXCEPT ![r] = 1]
  /\ hasMore' = [hasMore EXCEPT ![r] = TRUE]
  /\ all' = [all EXCEPT ![r] = <<>>]
  /\ pc' = [pc EXCEPT ![r] = "loop"]
  /\ UNCHANGED <<startIndex, pageReqs, pageDone>>

\* Variant: one accumulator for all calls, emptied when a call starts.
EnterFetchAllRequestsShared(r) ==
  /\ job' = [job EXCEPT ![r] = "requests"]
  /\ startIndex' = [startIndex EXCEPT ![r] = 1]
  /\ hasMore' = [hasMore EXCEPT ![r] = TRUE]
  /\ all' = [q \in Slots |-> <<>>]
  /\ pc' = [pc EXCEPT ![r] = "loop"]
  /\ UNCHANGED <<maxPages, page, pageReqs, pageDone>>

\* const allRequests = []; let startIndex = 1; let hasMore = true
EnterFetchAllRequests(r) ==
  /\ job' = [job EXCEPT ![r] = "requests"]
  /\ startIndex' = [startIndex EXCEPT ![r] = 1]
  /\ hasMore' = [hasMore EXCEPT ![r] = TRUE]
  /\ all' = [all EXCEPT ![r] = <<>>]
  /\ pc' = [pc EXCEPT ![r] = "loop"]
  /\ UNCHANGED <<maxPages, page, pageReqs, pageDone>>

\* let lastError = null; attempt = 0
EnterFetchWithRetry(r, u, n) ==
  /\ url' = [url EXCEPT ![r] = u]
  /\ retries' = [retries EXCEPT ![r] = n]
  /\ attempt' = [attempt EXCEPT ![r] = 0]
  /\ lastError' = [lastError EXCEPT ![r] = NoError]
  /\ tries' = [tries EXCEPT ![r] = <<>>]
  /\ warnLog' = [warnLog EXCEPT ![r] = <<>>]
  /\ waits' = [waits EXCEPT ![r] = <<>>]
  /\ pc' = [pc EXCEPT ![r] = "for"]

\* router.get('/accounts', ...): const accounts = await fetchAllAccounts()
RouteAccounts(r, req) ==
  /\ pc[r] = "idle"
  /\ RouteOf(req.method, req.path) = "accounts"
  /\ inbound' = [inbound EXCEPT ![r] = req]
  /\ via' = [via EXCEPT ![r] = "route"]
  /\ EnterFetchAllAccounts(r, DefaultMaxPages)
  /\ UNCHANGED <<envVars, retryVars, outVars>>

\* router.get('/requests', ...): the account check, then await fetchAllRequests(account)
RouteRequests(r, req) ==
  /\ pc[r] = "idle"
  /\ RouteOf(req.method, req.path) = "requests"
  /\ inbound' = [inbound EXCEPT ![r] = req]
  /\ via' = [via EXCEPT ![r] = "route"]
  /\ IF AccountParamMissing(req.account)
     THEN /\ httpResp' = [httpResp EXCEPT ![r] = MissingAccountResponse]
          /\ pc' = [pc EXCEPT ![r] = "done"]
          /\ UNCHANGED <<job, fetcherVars>>
     ELSE /\ EnterFetchAllRequests(r)
          /\ UNCHANGED httpResp
  /\ UNCHANGED <<envVars, retryVars, result, normalized>>

\* No route of the router matches: the 404 handler answers.
RouteNotFound(r, req) ==
  /\ pc[r] = "idle"
  /\ RouteOf(req.method, req.path) = "none"
  /\ inbound' = [inbound EXCEPT ![r] = req]
  /\ via' = [via EXCEPT ![r] = "route"]
  /\ httpResp' = [httpResp EXCEPT ![r] = NotFoundResponse(req.path)]
  /\ pc' = [pc EXCEPT ![r] = "done"]
  /\ UNCHANGED <<envVars, job, fetcherVars, retryVars, result, normalized>>

\* fetchAllAccounts(mp), called directly
CallFetchAllAccounts(r, mp) ==
  /\ pc[r] = "idle"
  /\ inbound' = [inbound EXCEPT ![r] = Call("fetchAllAccounts")]
  /\ via' = [via EXCEPT ![r] = "direct"]
  /\ EnterFetchAllAccounts(r, mp)
  /\ UNCHANGED <<envVars, retryVars, outVars>>

\* fetchWithRetry(url, options, n), called directly
CallFetchWithRetry(r, n) ==
  /\ pc[r] = "idle"
  /\ inbound' = [inbound EXCEPT ![r] = Call("fetchWithRetry")]
  /\ via' = [via EXCEPT ![r] = "direct"]
  /\ job' = [job EXCEPT ![r] = "fetch"]
  /\ EnterFetchWithRetry(r, [NoUrl EXCEPT !.path = "/any"], n)
  /\ UNCHANGED <<envVars, fetcherVars, outVars>>

(***************************************************************************)
(* The pure functions, called directly on the shapes a raw record can have *)
(***************************************************************************)
WithField(o, f, x) == [g \in DOMAIN o \cup {f} |-> IF g = f THEN x ELSE o[g]]


\* What a field that should hold a name, or an object with a name, can hold
FieldShapes == {Null, Str(sAnn), Str(<<>>), Str(sPadded), Num(5), Bool(TRUE),
                Arr(<<Str(sAnn)>>), Obj([name |-> Str(sAnn)]), Obj([name |-> Str(<<>>)]),
                Obj([name |-> Num(5)]), Obj([name |-> Null]), Obj([id |-> Num(1)])}
CoercedFields == {"status", "priority", "requester", "technician", "created_by",
                  "subject", "short_description", "group"}

baseTicket == [id |-> Num(9), subject |-> Str(sAcme), udf_fields |-> Obj([room |-> Num(12)])]

\* Raw tickets: those of the upstream, one field of a ticket in every shape, null
TicketShapes ==
  {ticket1, ticket2, ticket3, ticket4, ticket5, ticket6, Null, Undefined,
   Obj([id |-> Num(9)])}
  \cup {Obj(WithField(baseTicket, f, x)) : f \in CoercedFields, x \in FieldShapes}
  \cup {Obj(WithField(ticket4.v, f, x)) : f \in {"description", "text", "summary"},
                                          x \in {Str(sAbc), Num(5)}}

\* Technician names around the excluded one
TechnicianNames == {Str(sExcluded), Str(sMixedCase), Str(sSpaced), Str(sTabbed),
                    Str(<<"K", "R", "I", "S", "T", "I", "A", "N", " ", "M", " ",
                          "M", "A", "T", "I", "A", "S">>),
                    Str(sExcluded \o <<" ", "j", "r">>), Str(sAnn), Str(<<>>),
                    Str(<<" ">>), Null, Num(5), Num(0)}
TechnicianTickets ==
  {Obj([id |-> Num(9), technician |-> Obj([name |-> n])]) : n \in TechnicianNames}
  \cup {Obj([id |-> Num(9), technician |-> x]) :
          x \in {Null, Str(sExcluded), Str(sMixedCase), Obj([id |-> Num(1)])}}
  \cup {Obj([id |-> Num(9)]), Null, Undefined}

\* created_time.value around the bounds, and what else the field can hold
CreatedValues == {Num(0 - 2000), Num(0 - 1000), Num(0), Num(500), Num(1000), Num(2000),
                  Num(5000), Str(<<"5", "0", "0">>), Str(<<>>), Str(sAbc), Null}
CreatedTickets ==
  {Obj([id |-> Num(9), created_time |-> Obj([value |-> x])]) : x \in CreatedValues}
  \cup {Obj([id |-> Num(9), created_time |-> x]) : x \in {Null, Obj([display |-> Str(sAbc)])}}
  \cup {Obj([id |-> Num(9)]), Null}
EpochBounds == {Undefined, Num(0 - 1000), Num(0), Num(1000), Num(2000), NaN}

\* Raw accounts of the ServiceDeskAccount shape
AccountShapes ==
  {[id |-> i, name |-> n, site |-> st, status |-> su] :
     i \in {Undefined, Null, Num(0), Num(1526), Str(<<"7">>), Str(<<>>)},
     n \in {Undefined, Str(sCADC)},
     st \in {Undefined, Obj([name |-> Str(sZed)]), Obj([name |-> Undefined])},
     su \in {Undefined, Obj([name |-> Undefined]), Obj([name |-> Str(sActive)]),
             Obj([name |-> Str(sACTIVE)]), Obj([name |-> Str(sOnHold)]),
             Obj([name |-> Str(<<>>)]), Obj([name |-> Str(<<" ">> \o sActive)])}}

\* What a function without awaits does when it is called: it returns or throws.
PureResult(f, args) ==
  CASE f = "normalizeTicket" ->
         IF normalizeTicketThrows(args[1]) THEN [t |-> "threw", v |-> TypeErrorNullTicket]
         ELSE [t |-> "returned", v |-> normalizeTicket(args[1])]
    [] f = "isInDateRange" ->
         [t |-> "returned", v |-> Bool(isInDateRange(args[1], args[2], args[3]))]
    [] f = "isNotExcluded" ->
         IF isNotExcludedThrows(args[1]) THEN [t |-> "threw", v |-> TypeErrorNotAFunction]
         ELSE [t |-> "returned", v |-> Bool(isNotExcluded(args[1]))]
    [] OTHER -> [t |-> "returned", v |-> normalizeAccount(args[1])]

\* A direct call of one of them, with its arguments
PureCall(r, f, args) ==
  /\ pc[r] = "idle"
  /\ inbound' = [inbound EXCEPT ![r] =
                   CallWith(f, IF f = "normalizeTicket" /\ ~normalizeTicketThrows(args[1])
                               THEN <<ticketAfterNormalize(args[1])>> ELSE args)]
  /\ via' = [via EXCEPT ![r] = "direct"]
  /\ result' = [result EXCEPT ![r] = PureResult(f, args)]
  /\ pc' = [pc EXCEPT ![r] = "done"]
  /\ UNCHANGED <<envVars, job, fetcherVars, retryVars, httpResp, normalized>>

CallNormalizeTicket(r, ticket) == PureCall(r, "normalizeTicket", <<ticket>>)
CallIsInDateRange(r, ticket, from, to) == PureCall(r, "isInDateRange", <<ticket, from, to>>)
CallIsNotExcluded(r, ticket) == PureCall(r, "isNotExcluded", <<ticket>>)
CallNormalizeAccount(r, account) == PureCall(r, "normalizeAccount", <<account>>)

(***************************************************************************)
(* The fetchers' loops                                                     *)
(***************************************************************************)
\* Variant: the page cap is off by one.
AccountsContinuesOffByOne(r) == hasMore[r] /\ page[r] <= maxPages[r] + 1
\* while (hasMore && page <= maxPages)
AccountsContinues(r) == hasMore[r] /\ page[r] <= maxPages[r]
\* Variant: a cap of two pages, as fetchAllAccounts has one.
RequestsContinuesCapped(r) == hasMore[r] /\ startIndex[r] <= 2 * rowCount
\* while (hasMore)
RequestsContinues(r) == hasMore[r]

\* fetchAllAccounts: the loop test, then the page request or the return
AccountsLoop(r) ==
  /\ pc[r] = "loop"
  /\ job[r] = "accounts"
  /\ IF AccountsContinues(r)
     THEN /\ pageReqs' = [pageReqs EXCEPT ![r] = Append(@, AccountsUrl(page[r]))]
          /\ EnterFetchWithRetry(r, AccountsUrl(page[r]), DefaultRetries)
          /\ UNCHANGED <<outVars>>
     ELSE /\ Return(r, all[r])
          /\ UNCHANGED <<pageReqs, retryVars>>
  /\ UNCHANGED <<envVars, inbound, via, job, maxPages, page, startIndex, hasMore, all,
                 pageDone>>

\* fetchAllRequests: the loop test, then the page request or the return
RequestsLoop(r) ==
  /\ pc[r] = "loop"
  /\ job[r] = "requests"
  /\ IF RequestsContinues(r)
     THEN /\ Len(pageReqs[r]) < MaxRequestPages
          /\ pageReqs' = [pageReqs EXCEPT ![r] =
                            Append(@, RequestsUrl(startIndex[r], inbound[r].account.v))]
          /\ EnterFetchWithRetry(r, RequestsUrl(startIndex[r], inbound[r].account.v),
                                 DefaultRetries)
          /\ UNCHANGED <<outVars>>
     ELSE /\ Return(r, all[r])
          /\ UNCHANGED <<pageReqs, retryVars>>
  /\ UNCHANGED <<envVars, inbound, via, job, maxPages, page, startIndex, hasMore, all,
                 pageDone>>

(***************************************************************************)
(* fetchWithRetry                                                          *)
(***************************************************************************)
\* An entry of the history of attempts: how the attempt ended ("response",
\* "timeout", "error"), the status of the response, the cause of the error.
Try(o, st, x) == [o |-> o, st |-> st, text |-> x]

\* The loop test: the next attempt's fetch is issued, or the loop is over and
\* the function throws lastError || new Error(...).
ForLoop(r) ==
  /\ pc[r] = "for"
  /\ IF AttemptAllowed(attempt[r], retries[r])
     THEN /\ pc' = [pc EXCEPT ![r] = "inflight"]
          /\ UNCHANGED <<outVars>>
     ELSE Throw(r, ErrorAfterRetries(lastError[r]))
  /\ UNCHANGED <<envVars, inbound, via, job, fetcherVars, retryVars>>

\* data.accounts of the page asked for, normalized and pushed
AccountsPushed(acc, records) ==
  IF records.t = "array" THEN acc \o Map(normalizeAccount, records.v) ELSE acc

\* const batch = data.requests ?? []; allRequests.push(...batch)
RequestsPushed(acc, records) == acc \o Coalesce(records, Arr(<<>>)).v

\* await fetch(...) resolves with a response of status st: fetchWithRetry returns
\* it, and the caller goes on: the fetcher throws on !response.ok, parses the
\* body (has_more_rows hm, or a body that is no JSON), pushes the page and
\* advances its cursor.
FetchResolves(r, st, hm, wellFormed) ==
  /\ pc[r] = "inflight"
  /\ (~ResponseOk(st) \/ job[r] = "fetch") => (hm = "absent" /\ wellFormed)
  /\ tries' = [tries EXCEPT ![r] = Append(@, Try("response", st, ""))]
  /\ IF job[r] = "fetch"
     THEN /\ Return(r, [status |-> st])
          /\ UNCHANGED <<page, startIndex, hasMore, all, pageDone>>
     ELSE IF FetcherRejects(st)
     THEN /\ Throw(r, IF job[r] = "accounts" THEN AccountsApiError(st)
                      ELSE RequestsApiError(st))
          /\ UNCHANGED <<page, startIndex, hasMore, all, pageDone>>
     ELSE IF ~wellFormed
     THEN /\ Throw(r, SyntaxError)
          /\ UNCHANGED <<page, startIndex, hasMore, all, pageDone>>
     ELSE /\ all' = [all EXCEPT ![r] =
                       IF job[r] = "accounts"
                       THEN AccountsPushed(@, AccountsAt(db, url[r].start_index))
                       ELSE RequestsPushed(@, RequestsAt(db, url[r].start_index))]
          /\ hasMore' = [hasMore EXCEPT ![r] = HasMoreOf(hm)]
          /\ page' = [page EXCEPT ![r] = IF job[r] = "accounts" THEN @ + 1 ELSE @]
          /\ startIndex' = [startIndex EXCEPT ![r] =
                              IF job[r] = "requests" THEN NextStartIndex(@) ELSE @]
          /\ pageDone' = [pageDone EXCEPT ![r] = Append(@, hm)]
          /\ pc' = [pc EXCEPT ![r] = "loop"]
          /\ UNCHANGED <<outVars>>
  /\ UNCHANGED <<envVars, inbound, via, job, maxPages, pageReqs, url, retries, attempt,
                 lastError, warnLog, waits>>

\* What the catch block does with the error e of attempt a: "throw" the
\* timeout error, "backoff" before the next attempt, or go on to the loop test.
CatchOutcome(e, a, n) ==
  IF IsAbortError(e) THEN "throw"
  ELSE IF RetriesRemain(a, n) THEN "backoff"
  ELSE "next"

\* The catch block: await fetch(...) rejected with e.  The timeout timer
\* aborting the request makes it reject with an AbortError.
Catch(r, e) ==
  /\ lastError' = [lastError EXCEPT ![r] = e]
  /\ LET o == CatchOutcome(e, attempt[r], retries[r])
     IN  /\ IF o = "throw"
            THEN Throw(r, TimeoutError(DefaultTimeoutMs))
            ELSE /\ pc' = [pc EXCEPT ![r] = IF o = "backoff" THEN "backoff" ELSE "for"]
                 /\ UNCHANGED <<outVars>>
         /\ warnLog' = [warnLog EXCEPT ![r] =
                          IF o = "backoff"
                          THEN Append(@, [level |-> "warn", url |-> url[r],
                                          backoffMs |-> BackoffMs(attempt[r])])
                          ELSE @]
         /\ waits' = [waits EXCEPT ![r] =
                        IF o = "backoff" THEN Append(@, BackoffMs(attempt[r])) ELSE @]
         \* attempt++ of the for loop, when the catch block ends without a wait
         /\ attempt' = [attempt EXCEPT ![r] = IF o = "next" THEN @ + 1 ELSE @]
  /\ UNCHANGED <<envVars, inbound, via, job, fetcherVars, url, retries>>

\* setTimeout(() => controller.abort(), timeoutMs) fires while fetch is awaited
FetchTimesOut(r) ==
  /\ pc[r] = "inflight"
  /\ tries' = [tries EXCEPT ![r] = Append(@, Try("timeout", 0, ""))]
  /\ Catch(r, AbortError)

\* fetch rejects: network failure, connection reset
FetchRejects(r, e) ==
  /\ pc[r] = "inflight"
  /\ tries' = [tries EXCEPT ![r] = Append(@, Try("error", 0, e.text))]
  /\ Catch(r, e)

\* await new Promise(resolve => setTimeout(resolve, backoffMs)) is over; attempt++
BackoffElapses(r) ==
  /\ pc[r] = "backoff"
  /\ attempt' = [attempt EXCEPT ![r] = @ + 1]
  /\ pc' = [pc EXCEPT ![r] = "for"]
  /\ UNCHANGED <<envVars, inbound, via, job, fetcherVars, url, retries, lastError,
                 tries, warnLog, waits, outVars>>

(***************************************************************************)
(* Specification                                                           *)
(***************************************************************************)
Next ==
  \E r \in Slots :
    \/ \E req \in InboundRequests : RouteAccounts(r, req)
    \/ \E req \in InboundRequests : RouteRequests(r, req)
    \/ \E req \in InboundRequests : RouteNotFound(r, req)
    \/ \E mp \in 0..MaxPagesArg : CallFetchAllAccounts(r, mp)
    \/ \E n \in -1..MaxRetriesArg : CallFetchWithRetry(r, n)
    \/ \E t \in TicketShapes : CallNormalizeTicket(r, t)
    \/ \E t \in CreatedTickets, from \in EpochBounds, to \in EpochBounds :
         CallIsInDateRange(r, t, from, to)
    \/ \E t \in TechnicianTickets : CallIsNotExcluded(r, t)
    \/ \E a \in AccountShapes : CallNormalizeAccount(r, a)
    \/ AccountsLoop(r)
    \/ RequestsLoop(r)
    \/ ForLoop(r)
    \/ \E st \in UpstreamStatuses, hm \in HasMoreRows, wf \in BOOLEAN :
         FetchResolves(r, st, hm, wf)
    \/ FetchTimesOut(r)
    \/ \E e \in NetworkErrors : FetchRejects(r, e)
    \/ BackoffElapses(r)

Spec == Init /\ [][Next]_vars

(***************************************************************************)
(* Two inbound requests handled concurrently: every await of one can be    *)
(* followed by a step of the other.                                        *)
(***************************************************************************)
ConcRequests ==
  {Req("GET", "/accounts", Undefined, Undefined),
   Req("GET", "/requests", Str(sAcme), Undefined),
   ReqRange("GET", "/requests", Str(sAcme), Undefined, Str(sDay1), Str(sDay2))}

\* One configuration, the upstream whose pages alternate between two contents
InitConc == InitSlots(Slots) /\ nodeEnv = "development" /\ db = "A"

NextConc ==
  \E r \in Slots :
    \/ \E req \in ConcRequests : RouteAccounts(r, req)
    \/ \E req \in ConcRequests : RouteRequests(r, req)
    \/ AccountsLoop(r)
    \/ RequestsLoop(r)
    \/ ForLoop(r)
    \/ \E hm \in {"true", "false"} :
         /\ hm = "true" => Len(pageReqs[r]) < MaxConcPages
         /\ FetchResolves(r, 200, hm, TRUE)
    \/ FetchResolves(r, 503, "absent", TRUE)
    \/ FetchTimesOut(r)
    \/ \E e \in NetworkErrors : FetchRejects(r, e)
    \/ BackoffElapses(r)

SpecConc == InitConc /\ [][NextConc]_vars

(***************************************************************************)
(* Properties                                                              *)
(***************************************************************************)
Last(s) == s[Len(s)]
Threw(r, e) == result[r].t = "threw" /\ result[r].v = e
Returned(r, v) == result[r].t = "returned" /\ result[r].v = v
AllErrors(r) == \A i \in 1..Len(tries[r]) : tries[r][i].o = "error"

\* C1: an attempt of fetchWithRetry that ends in a timeout is the last one: the
\* call has failed with the timeout error, no later attempt was issued and no
\* backoff wait or retry log entry followed it, whatever retries remained.
C1_TimeoutIsTerminal ==
  \A r \in Slots : \A i \in 1..Len(tries[r]) :
    tries[r][i].o = "timeout" =>
      /\ i = Len(tries[r])
      /\ pc[r] = "done"
      /\ Threw(r, Err("Error", "Request timeout after ms", 15000, ""))
      /\ Len(waits[r]) = i - 1
      /\ Len(warnLog[r]) = i - 1

\* C1's case: the second attempt timed out while retries remained.
C1_Witness ==
  \E r \in Slots :
    /\ Len(tries[r]) = 2
    /\ tries[r][2].o = "timeout"
    /\ retries[r] >= 2
    /\ pc[r] = "done"

\* C4: fetchWithRetry issues at most retries + 1 attempts; a response ends the
\* call (it is the last attempt, and a direct caller gets that response); when
\* every one of the retries + 1 attempts failed with a non-timeout error the
\* call throws the error of the last attempt; the generic error is thrown only
\* when no attempt was made.
C4_BoundedAttempts ==
  \A r \in Slots :
    /\ Len(tries[r]) <= (IF retries[r] < 0 THEN 0 ELSE retries[r] + 1)
    /\ \A i \in 1..Len(tries[r]) :
         tries[r][i].o = "response" =>
           /\ i = Len(tries[r])
           /\ pc[r] \in {"loop", "done"}
           /\ job[r] = "fetch" => Returned(r, [status |-> tries[r][i].st])
    /\ (pc[r] = "done" /\ job[r] # "none" /\ tries[r] # <<>> /\ AllErrors(r)) =>
         /\ Len(tries[r]) = retries[r] + 1
         /\ Threw(r, Err("TypeError", "fetch failed", 0, Last(tries[r]).text))
    /\ (pc[r] = "done" /\ job[r] = "fetch" /\ tries[r] = <<>>) =>
         /\ retries[r] < 0
         /\ Threw(r, Err("Error", "Request failed after retries", 0, ""))
    /\ (pc[r] = "done" /\ result[r].t = "threw" /\ result[r].v = RequestFailedError) =>
         tries[r] = <<>>

\* C4's case: three attempts failed, the first and the last with different errors.
C4_Witness ==
  \E r \in Slots :
    /\ pc[r] = "done"
    /\ retries[r] = 2
    /\ Len(tries[r]) = 3
    /\ AllErrors(r)
    /\ tries[r][1].text # tries[r][3].text

\* C7: a non-2xx response ends fetchWithRetry like any response: it is returned,
\* with no retry, wait or log entry after it; the fetcher that called turns it
\* into its own error.
C7_NonOkIsReturned ==
  \A r \in Slots :
    (tries[r] # <<>> /\ Last(tries[r]).o = "response"
       /\ ~(Last(tries[r]).st >= 200 /\ Last(tries[r]).st <= 299)) =>
      LET st == Last(tries[r]).st
      IN  /\ pc[r] = "done"
          /\ Len(waits[r]) = Len(tries[r]) - 1
          /\ Len(warnLog[r]) = Len(tries[r]) - 1
          /\ job[r] = "fetch" => Returned(r, [status |-> st])
          /\ job[r] = "accounts" =>
               Threw(r, Err("Error", "ServiceDesk API returned", st, statusText(st)))
          /\ job[r] = "requests" =>
               Threw(r, Err("Error", "Requests fetch failed", 0, statusText(st)))

\* C7's case: the second page of accounts is answered 503 on its second attempt.
C7_Witness ==
  \E r \in Slots :
    /\ job[r] = "accounts"
    /\ Len(pageReqs[r]) = 2
    /\ Len(tries[r]) = 2
    /\ Last(tries[r]).o = "response"
    /\ Last(tries[r]).st = 503

ExpectedBackoff == <<1000, 2000, 4000, 8000, 16000, 32000>>

\* C8: every failed attempt a < retries (non-timeout) is followed by exactly one
\* warn entry carrying the url and a wait of 2^a * 1000 ms, and the next attempt
\* is in flight only after that wait; the failure of attempt a = retries is
\* followed by neither.
C8_Backoff ==
  \A r \in Slots :
    /\ Len(warnLog[r]) = Len(waits[r])
    /\ \A i \in 1..Len(waits[r]) :
         /\ waits[r][i] = ExpectedBackoff[i]
         /\ warnLog[r][i] = [level |-> "warn", url |-> url[r],
                             backoffMs |-> ExpectedBackoff[i]]
    /\ Len(waits[r]) =
         Cardinality({i \in 1..Len(tries[r]) :
                        tries[r][i].o = "error" /\ i - 1 < retries[r]})
    /\ pc[r] = "inflight" => Len(waits[r]) = Len(tries[r])
    /\ pc[r] = "backoff" =>
         /\ Len(waits[r]) = Len(tries[r])
         /\ Last(tries[r]).o = "error"
         /\ attempt[r] < retries[r]

\* C8's case: four attempts fail; three waits, none after the last.
C8_Witness ==
  \E r \in Slots :
    /\ pc[r] = "done"
    /\ retries[r] = 3
    /\ Len(tries[r]) = 4
    /\ AllErrors(r)
    /\ waits[r] = <<1000, 2000, 4000>>

RECURSIVE ExpectedAccounts(_, _)
\* the normalized accounts of the first n pages of database d
ExpectedAccounts(d, n) ==
  IF n = 0 THEN <<>>
  ELSE ExpectedAccounts(d, n - 1) \o
       (LET p == AccountsAt(d, (n - 1) * 100 + 1)
        IN  IF p.t = "array" THEN Map(normalizeAccount, p.v) ELSE <<>>)

AllTrue(s) == \A i \in 1..Len(s) : s[i] = "true"

\* C2: fetchAllAccounts(maxPages) makes at most maxPages page requests; when
\* every page it received reported has_more_rows = true it has made exactly
\* maxPages of them and returns, without an error, the accounts of exactly
\* those pages.
C2_PageCap ==
  \A r \in Slots :
    job[r] = "accounts" =>
      /\ Len(pageReqs[r]) <= maxPages[r]
      /\ (pc[r] = "done" /\ Len(pageDone[r]) = Len(pageReqs[r]) /\ AllTrue(pageDone[r])) =>
           /\ Len(pageReqs[r]) = maxPages[r]
           /\ Returned(r, ExpectedAccounts(db, maxPages[r]))
           /\ via[r] = "route" => httpResp[r].status = 200

\* C2's case: GET /accounts against an upstream that always reports more rows.
C2_Witness ==
  \E r \in Slots :
    /\ via[r] = "route"
    /\ job[r] = "accounts"
    /\ pc[r] = "done"
    /\ Len(pageDone[r]) = 10
    /\ AllTrue(pageDone[r])
    /\ httpResp[r].status = 200

\* the fetcher's last page request failed: a non-2xx response, a timeout or
\* an error on the last attempt
LastPageFailed(r) ==
  /\ tries[r] # <<>>
  /\ \/ Last(tries[r]).o # "response"
     \/ ~(Last(tries[r]).st >= 200 /\ Last(tries[r]).st <= 299)

\* C3: when a page request of a fetcher fails, the fetcher throws and its
\* caller gets no records, whatever the earlier pages brought; the route then
\* answers 500 with the error body, and a success body is sent only when every
\* page requested was received.
C3_AtomicFailure ==
  \A r \in Slots :
    (job[r] \in {"accounts", "requests"} /\ pc[r] = "done") =>
      /\ LastPageFailed(r) =>
           /\ result[r].t = "threw"
           /\ via[r] = "route" =>
                /\ httpResp[r].status = 500
                /\ DOMAIN httpResp[r].body = {"error", "message"}
      /\ result[r].t = "returned" => Len(pageDone[r]) = Len(pageReqs[r])
      /\ (via[r] = "route" /\ httpResp[r].status = 200) =>
           /\ result[r].t = "returned"
           /\ Len(pageDone[r]) = Len(pageReqs[r])
      /\ via[r] = "route" => httpResp[r].status \in {200, 500}

\* C3's case: GET /requests, two pages received, the third answered 503.
C3_Witness ==
  \E r \in Slots :
    /\ via[r] = "route"
    /\ job[r] = "requests"
    /\ pc[r] = "done"
    /\ Len(pageDone[r]) = 2
    /\ all[r] # <<>>
    /\ Last(tries[r]).o = "response"
    /\ Last(tries[r]).st = 503

\* C5: fetchAllRequests returns only after a page whose has_more_rows is not
\* true; it ends otherwise only by a failed page request; after a page with
\* has_more_rows = true the loop goes on, however many pages came before.
C5_NoPageCap ==
  \A r \in Slots :
    job[r] = "requests" =>
      /\ result[r].t = "returned" =>
           /\ pageDone[r] # <<>>
           /\ Last(pageDone[r]) # "true"
           /\ Len(pageReqs[r]) = Len(pageDone[r])
      /\ pc[r] = "done" => result[r].t \in {"returned", "threw"}
      /\ result[r].t = "threw" => Len(pageDone[r]) < Len(pageReqs[r])
      /\ (pc[r] = "loop" /\ pageDone[r] # <<>> /\ Last(pageDone[r]) = "true") => hasMore[r]

\* C5's case: three pages reported more rows and the fourth is being fetched.
C5_Witness ==
  \E r \in Slots :
    /\ job[r] = "requests"
    /\ Len(pageDone[r]) = 3
    /\ AllTrue(pageDone[r])
    /\ Len(pageReqs[r]) = 4
    /\ pc[r] = "inflight"

\* C6: the k-th page request of a fetcher carries row_count 100 and
\* start_index (k-1)*100 + 1; a page is requested only when every page before
\* it was received with has_more_rows = true, so at most one is outstanding
\* and a page with has_more_rows false or absent is the last one requested.
C6_Cursor ==
  \A r \in Slots :
    job[r] \in {"accounts", "requests"} =>
      /\ \A k \in 1..Len(pageReqs[r]) :
           /\ pageReqs[r][k].row_count = 100
           /\ pageReqs[r][k].start_index = (k - 1) * 100 + 1
      /\ Len(pageDone[r]) <= Len(pageReqs[r])
      /\ Len(pageReqs[r]) <= Len(pageDone[r]) + 1
      /\ \A k \in 1..Len(pageDone[r]) : k < Len(pageReqs[r]) => pageDone[r][k] = "true"
      /\ pc[r] \in {"for", "inflight", "backoff"} =>
           /\ Len(pageReqs[r]) = Len(pageDone[r]) + 1
           /\ url[r] = Last(pageReqs[r])

\* C6's case: the third page of requests comes without has_more_rows and ends the fetch.
C6_Witness ==
  \E r \in Slots :
    /\ job[r] = "requests"
    /\ pc[r] = "done"
    /\ pageDone[r] = <<"true", "true", "absent">>
    /\ Len(pageReqs[r]) = 3

\* C9: a POST to /accounts/sync whose x-admin-sync-key header is absent or is
\* not the configured key is answered 401, and no upstream call is made for it.
C9_SyncUnauthorized ==
  \A r \in Slots :
    (/\ pc[r] = "done"
     /\ inbound[r].kind = "http"
     /\ inbound[r].method = "POST"
     /\ inbound[r].path = "/accounts/sync"
     /\ (inbound[r].adminKey.t = "undefined" \/ inbound[r].adminKey.v # adminSyncKey)) =>
      /\ httpResp[r].status = 401
      /\ pageReqs[r] = <<>>

\* account is missing, empty or not a single string
BadAccountParam(a) ==
  \/ a.t = "undefined"
  \/ (a.t = "string" /\ Len(a.v) = 0)
  \/ a.t \in {"array", "object"}

\* C10: GET /requests with the account parameter missing, empty or not a single
\* string is answered 400 with success: false; fetchAllRequests is not called
\* and no upstream request is issued.
C10_MissingAccount ==
  \A r \in Slots :
    (/\ inbound[r].kind = "http"
     /\ inbound[r].method = "GET"
     /\ inbound[r].path = "/requests"
     /\ BadAccountParam(inbound[r].account)) =>
      /\ pc[r] = "done"
      /\ httpResp[r].status = 400
      /\ httpResp[r].body.success = FALSE
      /\ job[r] = "none"
      /\ pageReqs[r] = <<>>
      /\ tries[r] = <<>>
      /\ result[r] = Pending

\* C10's case: ?account=a&account=b, an array.
C10_Witness ==
  \E r \in Slots :
    /\ inbound[r].method = "GET"
    /\ inbound[r].path = "/requests"
    /\ inbound[r].account.t = "array"
    /\ httpResp[r].status = 400

(***************************************************************************)
(* The request filter and normalizeTicket                                  *)
(***************************************************************************)
\* GET /requests with a valid account has been answered 200
RequestsOk(r) ==
  /\ pc[r] = "done"
  /\ via[r] = "route"
  /\ job[r] = "requests"
  /\ httpResp[r].status = 200

DataOf(r) == httpResp[r].body.data
IdsOf(tickets) == {tickets[i].v.id : i \in 1..Len(tickets)}

\* c and d are the same letter in either case, or the same character
SameLetter(c, d) == c = d \/ \E n \in 1..26 : UpperCase[n] \in {c, d} /\ LowerCase[n] \in {c, d}

\* s is the text w in any mix of cases, with white space before and after it
IsPaddedAnyCase(s, w) ==
  \E i \in 1..(Len(s) + 1) :
    /\ i + Len(w) - 1 <= Len(s)
    /\ \A k \in 1..Len(w) : SameLetter(s[i + k - 1], w[k])
    /\ \A k \in 1..Len(s) : (k < i \/ k > i + Len(w) - 1) => s[k] \in WhiteSpace

\* The raw ticket carries a technician object whose name is the excluded one
HasExcludedTechnicianName(t) ==
  /\ t.t = "object"
  /\ "technician" \in DOMAIN t.v
  /\ t.v.technician.t = "object"
  /\ "name" \in DOMAIN t.v.technician.v
  /\ t.v.technician.v.name.t = "string"
  /\ IsPaddedAnyCase(t.v.technician.v.name.v, sExcluded)

HasNoTechnician(t) == t.t = "object" /\ "technician" \notin DOMAIN t.v

\* C11: a raw ticket whose technician name is "kristian m matias" in any case
\* and with any surrounding white space is not in the data of GET /requests,
\* and isNotExcluded says so; a ticket with no technician field passes
\* isNotExcluded, and is in the data when no date range is asked for.
C11_ExcludedTechnician ==
  \A r \in Slots :
    /\ RequestsOk(r) =>
         \A i \in 1..Len(result[r].v) :
           LET t == result[r].v[i]
           IN  /\ HasExcludedTechnicianName(t) => t.v.id \notin IdsOf(DataOf(r))
               /\ (HasNoTechnician(t) /\ inbound[r].from = Undefined) =>
                    t.v.id \in IdsOf(DataOf(r))
    /\ (inbound[r].kind = "isNotExcluded" /\ pc[r] = "done") =>
         LET t == inbound[r].args[1]
         IN  /\ HasExcludedTechnicianName(t) => Returned(r, Bool(FALSE))
             /\ HasNoTechnician(t) => Returned(r, Bool(TRUE))

\* C11's case: the upstream sent a ticket of " Kristian M MATIAS " and one
\* with no technician; the first is left out and the second is in the data.
C11_Witness ==
  \E r \in Slots :
    /\ RequestsOk(r)
    /\ \E i \in 1..Len(result[r].v) :
         /\ HasExcludedTechnicianName(result[r].v[i])
         /\ result[r].v[i].v.technician.v.name.v # sExcluded
         /\ result[r].v[i].v.id \notin IdsOf(DataOf(r))
    /\ \E i \in 1..Len(result[r].v) :
         /\ HasNoTechnician(result[r].v[i])
         /\ result[r].v[i].v.id \in IdsOf(DataOf(r))

\* isInDateRange has been called directly with a ticket and two bounds
DateRangeCalled(r) == inbound[r].kind = "isInDateRange" /\ pc[r] = "done"

HasNumericCreated(t) ==
  /\ t.t = "object"
  /\ "created_time" \in DOMAIN t.v
  /\ t.v.created_time.t = "object"
  /\ "value" \in DOMAIN t.v.created_time.v
  /\ t.v.created_time.v.value.t = "number"

\* C12: isInDateRange(ticket, from, to) is true for every ticket when either
\* bound is absent; with both bounds supplied, whatever epoch-millisecond
\* numbers they are (0 included), it is true exactly when
\* from <= created_time.value <= to.
C12_DateRange ==
  \A r \in Slots :
    DateRangeCalled(r) =>
      LET t == inbound[r].args[1]
          from == inbound[r].args[2]
          to == inbound[r].args[3]
      IN  /\ (from = Undefined \/ to = Undefined) => Returned(r, Bool(TRUE))
          /\ (from.t = "number" /\ to.t = "number" /\ HasNumericCreated(t)) =>
               Returned(r, Bool(from.v <= t.v.created_time.v.value.v
                                /\ t.v.created_time.v.value.v <= to.v))

\* The raw ticket has no created_time.value, or one that is no number:
\* null, the empty string or text that is no number
CreatedMissingOrNotANumber(t) ==
  /\ t.t = "object"
  /\ \/ "created_time" \notin DOMAIN t.v
     \/ t.v.created_time.t # "object"
     \/ "value" \notin DOMAIN t.v.created_time.v
     \/ t.v.created_time.v.value.t \in {"null", "undefined"}
     \/ /\ t.v.created_time.v.value.t = "string"
        /\ \/ t.v.created_time.v.value.v = <<>>
           \/ ~AllDigits(t.v.created_time.v.value.v)

\* C13: when GET /requests is given both from and to, no ticket whose
\* created_time.value is missing or no number is in the data.
C13_MissingCreatedExcluded ==
  \A r \in Slots :
    (RequestsOk(r) /\ inbound[r].from # Undefined /\ inbound[r].to # Undefined) =>
      \A i \in 1..Len(result[r].v) :
        CreatedMissingOrNotANumber(result[r].v[i]) =>
          result[r].v[i].v.id \notin IdsOf(DataOf(r))

\* The tickets of the first n pages of upstream database d, in order
RECURSIVE TicketsOfPages(_, _)
TicketsOfPages(d, n) ==
  IF n = 0 THEN <<>>
  ELSE LET pg == RequestsAt(d, (n - 1) * rowCount + 1)
       IN  TicketsOfPages(d, n - 1) \o (IF pg.t = "array" THEN pg.v ELSE <<>>)

\* The bounds the route derives from the request's from and to
FromOf(r) == fromEpochOf(inbound[r].from)
ToOf(r) == toEpochOf(inbound[r].to)

\* The positions of the fetched tickets that pass both predicates
PassingAt(r) ==
  {i \in 1..Len(result[r].v) :
     isInDateRange(result[r].v[i], FromOf(r), ToOf(r)) /\ isNotExcluded(result[r].v[i])}

\* C14: in a 200 answer of GET /requests, data is the normalization of the
\* fetched tickets that pass isInDateRange and isNotExcluded, in upstream
\* order; normalizeTicket was called with no ticket that fails either;
\* total_raw counts the tickets of all pages, total_filtered is the length of
\* data, and total_filtered <= total_raw.
C14_FilterThenNormalize ==
  \A r \in Slots :
    RequestsOk(r) =>
      LET fetched == result[r].v
          data == DataOf(r)
          meta == httpResp[r].body.meta
      IN  /\ fetched = TicketsOfPages(db, Len(pageDone[r]))
          /\ Len(data) = Cardinality(PassingAt(r))
          /\ \A i \in PassingAt(r) :
               data[Cardinality({j \in PassingAt(r) : j <= i})] = normalizeTicket(fetched[i])
          /\ \A k \in 1..Len(normalized[r]) :
               /\ isInDateRange(normalized[r][k], FromOf(r), ToOf(r))
               /\ isNotExcluded(normalized[r][k])
          /\ Len(normalized[r]) = Len(data)
          /\ meta.total_raw = Len(fetched)
          /\ meta.total_filtered = Len(data)
          /\ meta.total_filtered <= meta.total_raw

\* C14's case: a date range that applies, tickets of two pages or more, some
\* of them filtered out and two or more kept.
C14_Witness ==
  \E r \in Slots :
    /\ RequestsOk(r)
    /\ inbound[r].from = Str(sDay1)
    /\ Len(pageDone[r]) >= 2
    /\ Len(DataOf(r)) >= 2
    /\ httpResp[r].body.meta.total_filtered < httpResp[r].body.meta.total_raw
    /\ \E i \in 1..Len(result[r].v) :
         ~isNotExcluded(result[r].v[i]) /\ isInDateRange(result[r].v[i], FromOf(r), ToOf(r))

\* normalizeTicket has been called directly with one raw ticket
NormalizeTicketCalled(r) == inbound[r].kind = "normalizeTicket" /\ pc[r] = "done"

FallbackOf(f) ==
  CASE f = "status" -> sUnknown
    [] f = "priority" -> sUnspecified
    [] f = "requester" -> sUnknown
    [] f = "technician" -> sUnassigned
    [] OTHER -> sSystem

\* What the claim says field f of the normalized ticket is, given the raw ticket
CoercedAsClaimed(raw, f) ==
  IF f \in DOMAIN raw /\ raw[f].t = "string" THEN raw[f]
  ELSE IF /\ f \in DOMAIN raw
          /\ raw[f].t = "object"
          /\ "name" \in DOMAIN raw[f].v
          /\ raw[f].v.name.t = "string"
       THEN raw[f].v.name
  ELSE Str(FallbackOf(f))

FieldsCoerced(r) ==
  \A f \in {"status", "priority", "requester", "technician", "created_by"} :
    /\ result[r].v.v[f].t = "string"
    /\ result[r].v.v[f] = CoercedAsClaimed(inbound[r].args[1].v, f)

\* C15: normalizeTicket never fails, whatever it is given, and each of
\* status, priority, requester, technician and created_by of its result is a
\* string: the raw string, the name of a raw {name: X}, or the field's fallback.
C15_CoercionNeverFails ==
  \A r \in Slots :
    NormalizeTicketCalled(r) =>
      /\ result[r].t = "returned"
      /\ FieldsCoerced(r)

\* u is s without the white space at its two ends
IsTrimOf(u, s) ==
  \E i \in 1..(Len(s) + 1), j \in 0..Len(s) :
    /\ u = SubSeq(s, i, j)
    /\ \A k \in 1..Len(s) : (k < i \/ k > j) => s[k] \in WhiteSpace
    /\ u # <<>> => (u[1] \notin WhiteSpace /\ u[Len(u)] \notin WhiteSpace)

\* The text of a raw field that is a string, the empty text otherwise
TextOf(raw, f) == IF f \in DOMAIN raw /\ raw[f].t = "string" THEN raw[f].v ELSE <<>>

\* The text of the raw group: the string, or the string name of a {name: X}
GroupTextOf(raw) ==
  IF "group" \in DOMAIN raw /\ raw.group.t = "object" /\ "name" \in DOMAIN raw.group.v
     /\ raw.group.v.name.t = "string"
  THEN raw.group.v.name.v
  ELSE TextOf(raw, "group")

JoinedOf(n) == n.subject.v \o <<" ">> \o n.short_description.v \o <<" ">> \o n.group.v

\* C16: in the normalized ticket, subject, short_description and group are the
\* raw strings ("" when missing or no string), description is their join with
\* single spaces, trimmed, and text and summary equal description; so for a
\* direct call and for every ticket in the data of GET /requests.
C16_Description ==
  \A r \in Slots :
    /\ (NormalizeTicketCalled(r) /\ result[r].t = "returned") =>
         LET raw == inbound[r].args[1].v
             n == result[r].v.v
         IN  /\ n.subject = Str(TextOf(raw, "subject"))
             /\ n.short_description = Str(TextOf(raw, "short_description"))
             /\ n.group = Str(GroupTextOf(raw))
             /\ n.description.t = "string"
             /\ IsTrimOf(n.description.v, JoinedOf(n))
             /\ n.text = n.description
             /\ n.summary = n.description
    /\ RequestsOk(r) =>
         \A k \in 1..Len(DataOf(r)) :
           LET n == DataOf(r)[k].v
           IN  /\ n.description.t = "string"
               /\ IsTrimOf(n.description.v, JoinedOf(n))
               /\ n.text = n.description
               /\ n.summary = n.description

\* C16's case: a ticket with a padded short_description, a group object and no
\* subject: the joined text begins with two spaces, which the trim takes off.
C16_Witness ==
  \E r \in Slots :
    /\ NormalizeTicketCalled(r)
    /\ result[r].t = "returned"
    /\ "subject" \notin DOMAIN inbound[r].args[1].v
    /\ result[r].v.v.group.v = sZed
    /\ result[r].v.v.description.v # <<>>
    /\ Len(result[r].v.v.description.v) + 2 = Len(JoinedOf(result[r].v.v))

\* Every field of raw that normalizeTicket does not set is in n, unchanged
OtherFieldsKept(raw, n) ==
  \A f \in DOMAIN raw \ NormalizedFields : f \in DOMAIN n /\ n[f] = raw[f]

\* C17: every field of the raw ticket other than the eleven normalizeTicket
\* sets is in the normalized ticket with its value, and the raw ticket is
\* after the call what it was before: for a direct call one of the tickets
\* passed in, for the route the upstream's ticket.
C17_NoFieldDropped ==
  \A r \in Slots :
    /\ (NormalizeTicketCalled(r) /\ result[r].t = "returned") =>
         /\ OtherFieldsKept(inbound[r].args[1].v, result[r].v.v)
         /\ inbound[r].args[1] \in TicketShapes
    /\ RequestsOk(r) =>
         /\ Len(normalized[r]) = Len(DataOf(r))
         /\ \A i \in PassingAt(r) :
              LET k == Cardinality({j \in PassingAt(r) : j <= i})
              IN  /\ normalized[r][k] = TicketsOfPages(db, Len(pageDone[r]))[i]
                  /\ OtherFieldsKept(normalized[r][k].v, DataOf(r)[k].v)

\* C17's case: a ticket with an id and a udf_fields object, whose status is an
\* object; the status is replaced by its name and the other two fields are kept.
C17_Witness ==
  \E r \in Slots :
    /\ NormalizeTicketCalled(r)
    /\ result[r].t = "returned"
    /\ inbound[r].args[1] = ticket1
    /\ result[r].v.v.status = Str(sOnHold)
    /\ result[r].v.v.udf_fields = Obj([room |-> Num(12)])
    /\ result[r].v.v.id = Num(1)
    /\ result[r].v.v.created_time = ticket1.v.created_time

(***************************************************************************)
(* The global error handler                                                *)
(***************************************************************************)
\* An error of fetchAllAccounts or fetchAllRequests has reached the handler
FetchErrorHandled(r) == via[r] = "route" /\ pc[r] = "done" /\ result[r].t = "threw"

GenericErrorResponse ==
  [status |-> 500,
   body |-> [error |-> "Internal server error",
             message |-> [name |-> "", msg |-> "An unexpected error occurred",
                          num |-> 0, text |-> ""]]]

\* What must not be in a response: the upstream's error bodies and the token
Secrets == {authToken} \cup {ErrorBodyOf(st) : st \in UpstreamStatuses}

\* C18: an error of the fetch layer that reaches the global error handler is
\* answered 500 with a JSON body; in production the answer is one fixed
\* response whatever the error; otherwise its message is the error's message;
\* no part of the message is an upstream error body or the auth token.
C18_ErrorResponse ==
  \A r \in Slots :
    FetchErrorHandled(r) =>
      /\ httpResp[r].status = 500
      /\ httpResp[r].body.error = "Internal server error"
      /\ nodeEnv = "production" => httpResp[r] = GenericErrorResponse
      /\ nodeEnv # "production" =>
           /\ httpResp[r].body.message.msg = result[r].v.msg
           /\ httpResp[r].body.message.num = result[r].v.num
           /\ httpResp[r].body.message.text = result[r].v.text
      /\ httpResp[r].body.message.msg \notin Secrets
      /\ httpResp[r].body.message.text \notin Secrets

\* C18's case: in production the upstream answered a page of accounts 503 with
\* an error body, and the inbound request got the generic response.
C18_Witness ==
  \E r \in Slots :
    /\ FetchErrorHandled(r)
    /\ nodeEnv = "production"
    /\ job[r] = "accounts"
    /\ result[r].v = AccountsApiError(503)
    /\ httpResp[r] = GenericErrorResponse

(***************************************************************************)
(* Concurrent inbound requests                                             *)
(***************************************************************************)
\* Everything the program holds for the request in slot r
SlotState(r) ==
  <<pc[r], inbound[r], via[r], job[r], maxPages[r], page[r], startIndex[r], hasMore[r],
    all[r], url[r], retries[r], attempt[r], lastError[r], pageReqs[r], pageDone[r],
    tries[r], warnLog[r], waits[r], result[r], httpResp[r], normalized[r]>>

\* A step belongs to one request and leaves the other as it is
OneSlotStep == \E q \in Slots : \A r \in Slots \ {q} : SlotState(r)' = SlotState(r)

\* The accumulator, the cursor and the attempt counter of r follow from the
\* pages r itself has received and the attempts r itself has made
OwnProgress(r) ==
  /\ job[r] = "requests" =>
       /\ all[r] = TicketsOfPages(db, Len(pageDone[r]))
       /\ startIndex[r] = Len(pageDone[r]) * rowCount + 1
  /\ job[r] = "accounts" =>
       /\ all[r] = ExpectedAccounts(db, Len(pageDone[r]))
       /\ page[r] = Len(pageDone[r]) + 1
  /\ pc[r] = "inflight" => attempt[r] = Len(tries[r])
  /\ pc[r] = "backoff" => attempt[r] + 1 = Len(tries[r])

\* The answer to r follows from the pages and the failures of r itself
OwnOutcome(r) ==
  /\ RequestsOk(r) =>
       /\ result[r].v = TicketsOfPages(db, Len(pageDone[r]))
       /\ httpResp[r].body.meta.total_raw = Len(TicketsOfPages(db, Len(pageDone[r])))
       /\ IdsOf(DataOf(r)) \subseteq IdsOf(TicketsOfPages(db, Len(pageDone[r])))
  /\ (pc[r] = "done" /\ job[r] = "accounts" /\ result[r].t = "returned") =>
       /\ httpResp[r].status = 200
       /\ httpResp[r].body.data = ExpectedAccounts(db, Len(pageDone[r]))
  /\ (pc[r] = "done" /\ result[r].t = "threw") =>
       /\ httpResp[r].status = 500
       /\ Last(tries[r]).o = "timeout" => result[r].v = TimeoutError(DefaultTimeoutMs)
       /\ Last(tries[r]).o = "response" =>
            result[r].v = IF job[r] = "accounts" THEN AccountsApiError(Last(tries[r]).st)
                          ELSE RequestsApiError(Last(tries[r]).st)
       /\ Last(tries[r]).o = "error" => result[r].v.text = Last(tries[r]).text
  /\ (pc[r] = "done" /\ result[r].t = "returned") => Last(tries[r]).o = "response"

\* C19: with two inbound requests in flight, under every interleaving of their
\* page fetches, retries and backoff waits, every step changes the state of
\* one request only, each request's accumulator, cursor and attempt counter
\* follow from its own page fetches, and each answer holds the records of
\* the request's own pages or the error of its own last attempt.
C19_NoInterference ==
  /\ [](\A r \in Slots : OwnProgress(r) /\ OwnOutcome(r))
  /\ [][OneSlotStep]_vars

\* C19's case: one request was answered 200 with the tickets of its two pages
\* while the other, which had received a page, ended in a timeout.
C19_Witness ==
  \E r, q \in Slots :
    /\ r # q
    /\ RequestsOk(r)
    /\ Len(pageDone[r]) = 2
    /\ Len(DataOf(r)) >= 2
    /\ pc[q] = "done"
    /\ job[q] = "requests"
    /\ Len(pageDone[q]) = 1
    /\ Threw(q, TimeoutError(DefaultTimeoutMs))
    /\ httpResp[q].status = 500

(***************************************************************************)
(* normalizeAccount                                                        *)
(***************************************************************************)
NormalizeAccountCalled(r) == inbound[r].kind = "normalizeAccount" /\ pc[r] = "done"

\* s and w are the same text but for the case of their letters
EqualIgnoringCase(s, w) ==
  Len(s) = Len(w) /\ \A k \in 1..Len(s) : SameLetter(s[k], w[k])

\* s is the decimal numeral of n
IsNumeralOf(s, n) ==
  /\ s # <<>>
  /\ AllDigits(s)
  /\ Len(s) > 1 => s[1] # "0"
  /\ DigitsValue(s) = n

\* C20: the normalized account has externalId the id as a string, the decimal
\* numeral of a numeric id and "" when there is no id; isActive is true
\* exactly when the account has a status name equal to "active" but for the
\* case of its letters; name and site are the upstream's name and site.name,
\* null when there is none.
C20_NormalizedAccount ==
  \A r \in Slots :
    NormalizeAccountCalled(r) =>
      LET a == inbound[r].args[1]
          n == result[r].v
          hasStatusName == a.status.t = "object" /\ a.status.v.name.t = "string"
          hasSiteName == a.site.t = "object" /\ a.site.v.name.t = "string"
      IN  /\ result[r].t = "returned"
          /\ a.id.t \in {"undefined", "null"} => n.externalId = <<>>
          /\ a.id.t = "string" => n.externalId = a.id.v
          /\ a.id.t = "number" => IsNumeralOf(n.externalId, a.id.v)
          /\ n.isActive = (hasStatusName /\ EqualIgnoringCase(a.status.v.name.v, sActive))
          /\ n.name = (IF a.name.t = "string" THEN a.name ELSE Null)
          /\ n.site = (IF hasSiteName THEN a.site.v.name ELSE Null)

\* C20's case: a numeric id, a status name in capitals, no name and a site
\* without a name.
C20_Witness ==
  \E r \in Slots :
    /\ NormalizeAccountCalled(r)
    /\ inbound[r].args[1].id = Num(1526)
    /\ inbound[r].args[1].status = Obj([name |-> Str(sACTIVE)])
    /\ inbound[r].args[1].name = Undefined
    /\ inbound[r].args[1].site = Obj([name |-> Undefined])
    /\ result[r].v = [externalId |-> <<"1", "5", "2", "6">>, name |-> Null,
                      site |-> Null, isActive |-> TRUE]

(***************************************************************************)
(* The output of GET /requests                                             *)
(***************************************************************************)
\* The normalized technician of ticket n is, lower-cased and trimmed, one of
\* the excluded names the response lists
TechnicianListedAsExcluded(n, meta) ==
  /\ n.technician.t = "string"
  /\ \E w \in meta.excluded_technicians : IsPaddedAnyCase(n.technician.v, w)

\* C21: no ticket in the data of a 200 answer of GET /requests has a
\* normalized technician that, lower-cased and trimmed, is in
\* meta.excluded_technicians, whether the raw technician was a {name} object
\* or a plain string.
C21_NoExcludedTechnicianInData ==
  \A r \in Slots :
    RequestsOk(r) =>
      \A k \in 1..Len(DataOf(r)) :
        ~TechnicianListedAsExcluded(DataOf(r)[k].v, httpResp[r].body.meta)

====
